---- MODULE Spec2Model ----
(***************************************************************************)
(* Model of GPflow's sparse variational GP (src/GPflow/svgp.py): the SVGP  *)
(* object, its three graph builders (build_prior_KL, build_likelihood,     *)
(* build_predict) and the external optimizer that moves Z, q_mu, q_sqrt    *)
(* between forward passes.                                                 *)
(*                                                                         *)
(* Numbers.  The program computes over the reals (float64).  The model     *)
(* computes exactly:                                                       *)
(*   - a rational is a pair <<n, d>>, d > 0, in lowest terms;              *)
(*   - a scalar that went through tf.log is a record [r, p, t] standing    *)
(*     for  r + (1/2) ln p - (t/2) ln(2 pi),  r and p rational, p > 0.     *)
(*     Logarithms of distinct rationals are linearly independent of the    *)
(*     rationals, so two such records are equal iff the reals are equal.   *)
(* tf.log only ever appears as 0.5 * reduce_sum(log(square(v))), which is  *)
(* the sum of (1/2) ln(v_i^2): that is what HalfLog models.                *)
(* Floating-point cancellation in the predictive variance is modelled as a *)
(* nondeterministic error term (RoundErr).                                 *)
(***************************************************************************)
EXTENDS Integers, Sequences, FiniteSets, TLC

\* A sequence given by its length and its entries.  (TLC applies a function
\* expression lazily, recomputing an entry at every use; the concatenation
\* makes it a tuple of values.)
Tab(n, F(_)) == [i \in 1..n |-> F(i)] \o <<>>

\* ------------------------------------------------------------------------
\* Exact rational arithmetic
\* ------------------------------------------------------------------------
Abs(a) == IF a < 0 THEN -a ELSE a

RECURSIVE Gcd(_, _)
Gcd(a, b) == IF b = 0 THEN a ELSE Gcd(b, a % b)

\* (values shared by several uses are passed as operator arguments, which
\* TLC evaluates once)
NormBy(n, d, g) == IF d < 0 THEN <<(-n) \div g, (-d) \div g>> ELSE <<n \div g, d \div g>>
Norm(n, d) == IF d = 1 THEN <<n, 1>> ELSE NormBy(n, d, Gcd(Abs(n), Abs(d)))

Rat(n) == <<n, 1>>
Zero == <<0, 1>>
One == <<1, 1>>
Half == <<1, 2>>

RAddOver(a, b, l) == Norm(a[1] * (l \div a[2]) + b[1] * (l \div b[2]), l)
RAdd(a, b) == IF a[2] = b[2] THEN Norm(a[1] + b[1], a[2])
              ELSE RAddOver(a, b, (a[2] \div Gcd(a[2], b[2])) * b[2])
RNeg(a) == <<-a[1], a[2]>>
RSub(a, b) == RAdd(a, RNeg(b))
RMul(a, b) == IF a[1] = 0 \/ b[1] = 0 THEN <<0, 1>> ELSE Norm(a[1] * b[1], a[2] * b[2])
RInv(a) == Norm(a[2], a[1])
RDiv(a, b) == RMul(a, RInv(b))
RSq(a) == RMul(a, a)
RLess(a, b) == a[1] * b[2] < b[1] * a[2]
RMax(a, b) == IF RLess(a, b) THEN b ELSE a

\* Square root of a rational that is a perfect square (the kernel table
\* below is chosen so that every Cholesky pivot is one).
ISqrt(n) == CHOOSE k \in 0..n : k * k = n
RSqrt(a) == <<ISqrt(a[1]), ISqrt(a[2])>>

RECURSIVE RSumTo(_, _)
RSumTo(s, n) == IF n = 0 THEN Zero ELSE RAdd(RSumTo(s, n - 1), s[n])
RSumSeq(s) == RSumTo(s, Len(s))

RECURSIVE RPow(_, _)
RPow(a, k) == IF k = 0 THEN One ELSE RMul(a, RPow(a, k - 1))

\* ------------------------------------------------------------------------
\* Scalars with logarithms:  r + (1/2) ln p - (t/2) ln(2 pi)
\* ------------------------------------------------------------------------
XOf(q) == [r |-> q, p |-> One, t |-> 0]
XZero == XOf(Zero)
HalfLog(q) == [r |-> Zero, p |-> q, t |-> 0]
XAdd(a, b) == [r |-> RAdd(a.r, b.r), p |-> RMul(a.p, b.p), t |-> a.t + b.t]
XNeg(a) == [r |-> RNeg(a.r), p |-> RInv(a.p), t |-> -a.t]
XSub(a, b) == XAdd(a, XNeg(b))
XScale(k, a) == [r |-> RMul(Rat(k), a.r), p |-> RPow(a.p, k), t |-> k * a.t]

RECURSIVE XSumTo(_, _)
XSumTo(s, n) == IF n = 0 THEN XZero ELSE XAdd(XSumTo(s, n - 1), s[n])
XSumSeq(s) == XSumTo(s, Len(s))

\* ------------------------------------------------------------------------
\* Matrices: a matrix is a sequence of rows, a row a sequence of rationals
\* ------------------------------------------------------------------------
Rows(A) == Len(A)
Cols(A) == IF A = <<>> THEN 0 ELSE Len(A[1])
Flatten(A) == Tab(Rows(A) * Cols(A),
                  LAMBDA k : A[((k - 1) \div Cols(A)) + 1][((k - 1) % Cols(A)) + 1])
MatMap(F(_), A) == Tab(Rows(A), LAMBDA i : Tab(Cols(A), LAMBDA j : F(A[i][j])))
MatAdd(A, B) == Tab(Rows(A), LAMBDA i : Tab(Cols(A), LAMBDA j : RAdd(A[i][j], B[i][j])))
Transpose(A) == Tab(Cols(A), LAMBDA j : Tab(Rows(A), LAMBDA i : A[i][j]))
IntMat(A) == MatMap(Rat, A)

\* tf.reduce_sum, tf.square
reduce_sum(A) == RSumSeq(Flatten(A))
square(A) == MatMap(RSq, A)
\* 0.5 * tf.reduce_sum(tf.log(tf.square(A)))
half_sum_log_square(A) == XSumSeq(Flatten(MatMap(LAMBDA v : HalfLog(RSq(v)), A)))

\* tf_hacks.eye
eye(n) == Tab(n, LAMBDA i : Tab(n, LAMBDA j : IF i = j THEN One ELSE Zero))
\* tf.user_ops.get_diag: the diagonal as a column
get_diag(A) == Tab(Rows(A), LAMBDA i : <<A[i][i]>>)
\* tf.user_ops.triangle(A, 'lower'): zero the strictly upper part
triangle_lower(A) ==
    Tab(Rows(A), LAMBDA i : Tab(Cols(A), LAMBDA j : IF j <= i THEN A[i][j] ELSE Zero))

\* tf.cholesky (Cholesky-Banachiewicz).  Pivot(A, j) is the number whose
\* square root is L[j][j]; the factorization fails when a pivot is not
\* positive.
RECURSIVE CholEntry(_, _, _)
RECURSIVE Pivot(_, _)
Pivot(A, j) == RSub(A[j][j], RSumSeq(Tab(j - 1, LAMBDA k : RSq(CholEntry(A, j, k)))))
CholEntry(A, i, j) ==
    IF j > i THEN Zero
    ELSE IF i = j THEN RSqrt(Pivot(A, j))
    ELSE RDiv(RSub(A[i][j], RSumSeq(Tab(j - 1,
                  LAMBDA k : RMul(CholEntry(A, i, k), CholEntry(A, j, k))))),
              CholEntry(A, j, j))
CholOk(A) == \A j \in 1..Rows(A) : RLess(Zero, Pivot(A, j))
cholesky(A) == Tab(Rows(A), LAMBDA i : Tab(Rows(A), LAMBDA j : CholEntry(A, i, j)))

\* tf.user_ops.triangular_solve(L, B, 'lower'): forward substitution
RECURSIVE FwdEntry(_, _, _, _)
FwdEntry(L, B, i, c) ==
    RDiv(RSub(B[i][c], RSumSeq(Tab(i - 1, LAMBDA k : RMul(L[i][k], FwdEntry(L, B, k, c))))),
         L[i][i])
triangular_solve_lower(L, B) ==
    Tab(Rows(B), LAMBDA i : Tab(Cols(B), LAMBDA c : FwdEntry(L, B, i, c)))

\* tf.user_ops.triangular_solve(U, B, 'upper'): back substitution
RECURSIVE BackEntry(_, _, _, _)
BackEntry(U, B, i, c) ==
    RDiv(RSub(B[i][c], RSumSeq(Tab(Rows(U) - i,
              LAMBDA k : RMul(U[i][i + k], BackEntry(U, B, i + k, c))))),
         U[i][i])
triangular_solve_upper(U, B) ==
    Tab(Rows(B), LAMBDA i : Tab(Cols(B), LAMBDA c : BackEntry(U, B, i, c)))

MatMul(A, B) ==
    Tab(Rows(A), LAMBDA i : Tab(Cols(B), LAMBDA j :
        RSumSeq(Tab(Cols(A), LAMBDA k : RMul(A[i][k], B[k][j])))))

\* ------------------------------------------------------------------------
\* Bounds of the model
\* ------------------------------------------------------------------------
\* largest number of latent functions (columns of Y)
MaxLatent == 2
\* magnitude of the parameter updates: q_mu entries are -MaxVal or 0,
\* q_sqrt entries are 0, 1, MaxVal or MaxVal + 1
MaxVal == 1
\* number of optimizer updates between forward passes that are explored
MaxOptSteps == 1

\* ------------------------------------------------------------------------
\* External collaborators: kernel, mean function, likelihood
\* ------------------------------------------------------------------------
\* Points are identified by integers.  1..6 are inducing locations, 10..12
\* are data locations.  The kernel is given by its table; on the inducing
\* locations the table is G - 1e-6*I, with G below, so that K(Z) + 1e-6*I is
\* exactly G (and every Cholesky pivot of it is a perfect square).  The
\* pair 5,6 is a degenerate configuration: its Gram matrix is indefinite.
Jitter == <<1, 1000000>>

G(x, y) ==
    LET a == IF x <= y THEN x ELSE y
        b == IF x <= y THEN y ELSE x
    IN  CASE <<a, b>> = <<1, 1>> -> 4
          [] <<a, b>> = <<1, 2>> -> 2
          [] <<a, b>> = <<2, 2>> -> 5
          [] <<a, b>> = <<3, 3>> -> 1
          [] <<a, b>> = <<3, 4>> -> 1
          [] <<a, b>> = <<4, 4>> -> 2
          [] <<a, b>> = <<5, 5>> -> 4
          [] <<a, b>> = <<5, 6>> -> 4
          [] <<a, b>> = <<6, 6>> -> 3
          [] <<a, b>> = <<1, 10>> -> 2
          [] <<a, b>> = <<2, 10>> -> 1
          [] <<a, b>> = <<3, 10>> -> 1
          [] <<a, b>> = <<4, 10>> -> 1
          [] <<a, b>> = <<10, 10>> -> 2
          [] <<a, b>> = <<2, 12>> -> 2
          [] <<a, b>> = <<3, 12>> -> 1
          [] <<a, b>> = <<12, 12>> -> 3
          [] OTHER -> 0

kern(x, y) == IF x = y /\ x <= 6 THEN RSub(Rat(G(x, y)), Jitter) ELSE Rat(G(x, y))
\* kern.K(A), kern.K(A, B), kern.Kdiag(A)
K(A) == Tab(Len(A), LAMBDA i : Tab(Len(A), LAMBDA j : kern(A[i], A[j])))
Kcross(A, B) == Tab(Len(A), LAMBDA i : Tab(Len(B), LAMBDA j : kern(A[i], B[j])))
Kdiag(A) == Tab(Len(A), LAMBDA i : kern(A[i], A[i]))

\* the mean function: linear, m(x) = 11 - x for every latent function
\* (1 at point 10, 0 at point 11, -1 at point 12)
MeanFunctions == {"Linear"}
MeanFunction(mf, Xs, nl) ==
    Tab(Len(Xs), LAMBDA n : Tab(nl, LAMBDA d : Rat(11 - Xs[n])))

\* Gaussian likelihood with unit noise variance:
\*   E[log N(y | f, 1)] = -0.5 ln(2 pi) - 0.5 ((y - m)^2 + v)
variational_expectations(Fmu, Fvar, Ys) ==
    Tab(Rows(Fmu), LAMBDA n : Tab(Cols(Fmu), LAMBDA d :
        [r |-> RNeg(RMul(Half, RAdd(RSq(RSub(Ys[n][d], Fmu[n][d])), Fvar[n][d]))),
         p |-> One, t |-> 1]))
XReduceSum(A) == XSumSeq(Flatten(A))

\* floating-point cancellation error of the predictive variance
RoundErr == {Zero, <<1, 8>>}

\* ------------------------------------------------------------------------
\* Inputs
\* ------------------------------------------------------------------------
ZSet == {<<1>>, <<1, 2>>, <<3, 4>>, <<5, 6>>}
XSet == {<<10, 11>>}
XnewSet == {<<12, 11>>}
YOf(Xs, R) == Tab(Len(Xs), LAMBDA n : Tab(R, LAMBDA d : n + d - 2))
MuVals == {-MaxVal, 0}
SqrtDiagVals == {1, MaxVal + 1}
SqrtOffVals == {0, MaxVal}

\* q_sqrt[:, :, d]
Slice(q, d) == Tab(Len(q), LAMBDA i : Tab(Len(q[i]), LAMBDA j : Rat(q[i][j][d])))

\* ------------------------------------------------------------------------
\* conditionals.gaussian_gp_predict / gaussian_gp_predict_whitened
\* (the conditional predictor; ndims is the rank of q_sqrt: 2 when it is an
\* M x L matrix of standard deviations, 3 when it is M x M x L)
\* ------------------------------------------------------------------------
CholAttempt(who, A) == [by |-> who, jitter |-> Jitter, ok |-> CholOk(A)]
AddJitter(Kzz) == MatAdd(Kzz, MatMap(LAMBDA e : RMul(e, Jitter), eye(Rows(Kzz))))

\* the variance before clipping: Kdiag - reduction + contribution of q_sqrt - err
conditional_raw(Knn, Kmn, A, LqTA, qsqrt, nl, ndims, white, err) ==
    Tab(Cols(Kmn), LAMBDA n : Tab(nl, LAMBDA d :
        RSub(RAdd(RSub(Knn[n],
                       RSumSeq(Tab(Rows(A), LAMBDA m :
                          IF white THEN RSq(A[m][n]) ELSE RMul(A[m][n], Kmn[m][n])))),
                  IF ndims = 2
                  THEN RSumSeq(Tab(Rows(A), LAMBDA m :
                          RMul(RSq(A[m][n]), RSq(Rat(qsqrt[m][d])))))
                  ELSE RSumSeq(Tab(Rows(A), LAMBDA k : RSq(LqTA[d][k][n])))),
             err)))

conditional_out(raw, A, qmu, att) ==
    [ok   |-> TRUE,
     mean |-> MatMul(Transpose(A), IntMat(qmu)),
     var  |-> MatMap(LAMBDA v : RMax(v, Zero), raw),
     raw  |-> raw,
     chol |-> <<att>>]

conditional_A(Xnew, Kmn, A, qmu, qsqrt, nl, ndims, white, err, att) ==
    conditional_out(
        conditional_raw(Kdiag(Xnew), Kmn, A,
                        Tab(nl, LAMBDA d : IF ndims = 2 THEN <<>>
                            ELSE MatMul(Transpose(triangle_lower(Slice(qsqrt, d))), A)),
                        qsqrt, nl, ndims, white, err),
        A, qmu, att)

conditional_Lm(Xnew, Lm, Kmn, qmu, qsqrt, nl, ndims, white, err, att) ==
    conditional_A(Xnew, Kmn,
                  IF white THEN triangular_solve_lower(Lm, Kmn)
                  ELSE triangular_solve_upper(Transpose(Lm), triangular_solve_lower(Lm, Kmn)),
                  qmu, qsqrt, nl, ndims, white, err, att)

conditional_Kmm(Xnew, Zs, Kmm, qmu, qsqrt, nl, ndims, white, err, att) ==
    IF ~att.ok THEN [ok |-> FALSE, chol |-> <<att>>]
    ELSE conditional_Lm(Xnew, cholesky(Kmm), Kcross(Zs, Xnew),
                        qmu, qsqrt, nl, ndims, white, err, att)

conditional(Xnew, Zs, qmu, qsqrt, nl, ndims, white, err) ==
    conditional_Kmm(Xnew, Zs, AddJitter(K(Zs)), qmu, qsqrt, nl, ndims, white, err,
                    CholAttempt(IF white THEN "gaussian_gp_predict_whitened"
                                ELSE "gaussian_gp_predict", AddJitter(K(Zs))))

gaussian_gp_predict_whitened(Xnew, Zs, qmu, qsqrt, nl, ndims, err) ==
    conditional(Xnew, Zs, qmu, qsqrt, nl, ndims, TRUE, err)
gaussian_gp_predict(Xnew, Zs, qmu, qsqrt, nl, ndims, err) ==
    conditional(Xnew, Zs, qmu, qsqrt, nl, ndims, FALSE, err)

\* ------------------------------------------------------------------------
\* SVGP.__init__
\* ------------------------------------------------------------------------
zeros(m, n) == Tab(m, LAMBDA i : Tab(n, LAMBDA j : 0))
ones(m, n) == Tab(m, LAMBDA i : Tab(n, LAMBDA j : 1))
\* np.array([np.eye(M) for _ in range(L)]).swapaxes(0, 2)
swapaxes02(T) ==
    Tab(Len(T[1][1]), LAMBDA i : Tab(Len(T[1]), LAMBDA j : Tab(Len(T), LAMBDA d : T[d][j][i])))
eye_stack(m, n) ==
    swapaxes02(Tab(n, LAMBDA d : Tab(m, LAMBDA i : Tab(m, LAMBDA j : IF i = j THEN 1 ELSE 0))))

\* num_latent = None is written 0 (Python's "or" treats both alike)
SVGP_init(Xs, Ys, mf, Zs, nlArg, qd, wh) ==
    LET nl == IF nlArg # 0 THEN nlArg ELSE Len(Ys[1])
        ni == Len(Zs)
    IN  [X |-> Xs, Y |-> Ys, mean_function |-> mf,
         q_diag |-> qd, whiten |-> wh, Z |-> Zs,
         num_latent |-> nl, num_inducing |-> ni,
         q_mu |-> zeros(ni, nl),
         q_sqrt |-> IF qd THEN ones(ni, nl) ELSE eye_stack(ni, nl)]

\* rank of the q_sqrt array
QSqrtNdims(self) == IF self.q_diag THEN 2 ELSE 3

\* ------------------------------------------------------------------------
\* SVGP.build_prior_KL
\* ------------------------------------------------------------------------
\* mutant: the constant term forgets the number of latent functions
KL_whiten_head_noLatent(self) ==
    XSub(XOf(RMul(Half, reduce_sum(square(IntMat(self.q_mu))))),
         XOf(RMul(Half, Rat(self.num_inducing))))

\* lines 49-50 (whiten) : Mahalanobis and constant terms
KL_whiten_head(self) ==
    XSub(XOf(RMul(Half, reduce_sum(square(IntMat(self.q_mu))))),
         XOf(RMul(Half, Rat(self.num_inducing * self.num_latent))))

\* line 52
KL_whiten_diag(self) ==
    XAdd(KL_whiten_head(self),
         XAdd(XNeg(half_sum_log_square(IntMat(self.q_sqrt))),
              XOf(RMul(Half, reduce_sum(square(IntMat(self.q_sqrt)))))))

\* lines 57-58 for one latent function, given Lq
KL_whiten_full_terms(Lq) ==
    XAdd(XNeg(half_sum_log_square(get_diag(Lq))),
         XOf(RMul(Half, reduce_sum(square(Lq)))))

\* mutant: the whole q_sqrt slice is used, not its lower triangle
KL_whiten_full_noTriangle(self) ==
    XAdd(KL_whiten_head(self),
         XSumSeq(Tab(self.num_latent, LAMBDA d :
            KL_whiten_full_terms(Slice(self.q_sqrt, d)))))

\* lines 55-58
KL_whiten_full(self) ==
    XAdd(KL_whiten_head(self),
         XSumSeq(Tab(self.num_latent, LAMBDA d :
            KL_whiten_full_terms(triangle_lower(Slice(self.q_sqrt, d))))))

\* lines 61-64
KL_head(self, L) ==
    XSub(XAdd(XOf(RMul(Half, reduce_sum(square(
                    triangular_solve_lower(L, IntMat(self.q_mu)))))),
              XScale(self.num_latent, half_sum_log_square(get_diag(L)))),
         XOf(RMul(Half, Rat(self.num_inducing * self.num_latent))))

\* lines 68-69, given get_diag(K_inv) and tf.square(q_sqrt)
KL_diag_terms(self, L, Kd, q2) ==
    XAdd(XSub(KL_head(self, L), half_sum_log_square(IntMat(self.q_sqrt))),
         XOf(RMul(Half, reduce_sum(Tab(self.num_inducing, LAMBDA i :
                Tab(self.num_latent, LAMBDA d : RMul(Kd[i][1], q2[i][d])))))))

\* mutant: the diagonal of L^-1 is taken for the diagonal of K^-1
KL_diag_Linv(self, L) ==
    KL_diag_terms(self, L,
        get_diag(triangular_solve_lower(L, eye(self.num_inducing))),
        square(IntMat(self.q_sqrt)))

\* lines 66-69
KL_diag(self, L) ==
    KL_diag_terms(self, L,
        get_diag(triangular_solve_upper(Transpose(L),
                    triangular_solve_lower(L, eye(self.num_inducing)))),
        square(IntMat(self.q_sqrt)))

\* lines 72-75 for one latent function, given Lq
KL_full_terms(L, Lq) ==
    XAdd(XNeg(half_sum_log_square(get_diag(Lq))),
         XOf(RMul(Half, reduce_sum(square(triangular_solve_lower(L, Lq))))))

\* lines 71-75
KL_full(self, L) ==
    XAdd(KL_head(self, L),
         XSumSeq(Tab(self.num_latent, LAMBDA d :
            KL_full_terms(L, triangle_lower(Slice(self.q_sqrt, d))))))

\* mutant: a failed factorization is retried with ten times the jitter
KL_natural_retry(self, Kmm, att) ==
    IF ~att.ok
    THEN [ok |-> FALSE,
          chol |-> <<att, [by |-> "build_prior_KL", jitter |-> RMul(Rat(10), Jitter),
                           ok |-> FALSE]>>,
          flags |-> <<"whiten">>, formula |-> <<>>]
    ELSE [ok |-> TRUE, chol |-> <<att>>, flags |-> <<"whiten", "q_diag">>,
          formula |-> IF self.q_diag THEN <<"diag">> ELSE <<"full">>,
          val |-> IF self.q_diag THEN KL_diag(self, cholesky(Kmm))
                                 ELSE KL_full(self, cholesky(Kmm))]

\* lines 60-75, given K(Z) + 1e-6*I and the outcome of tf.cholesky on it
KL_natural(self, Kmm, att) ==
    IF ~att.ok
    THEN [ok |-> FALSE, chol |-> <<att>>, flags |-> <<"whiten">>, formula |-> <<>>]
    ELSE [ok |-> TRUE, chol |-> <<att>>, flags |-> <<"whiten", "q_diag">>,
          formula |-> IF self.q_diag THEN <<"diag">> ELSE <<"full">>,
          val |-> IF self.q_diag THEN KL_diag(self, cholesky(Kmm))
                                 ELSE KL_full(self, cholesky(Kmm))]

\* mutant: the whiten test is inverted
build_prior_KL_swapped(self) ==
    IF ~self.whiten
    THEN [ok |-> TRUE, chol |-> <<>>, flags |-> <<"whiten", "q_diag">>,
          formula |-> IF self.q_diag THEN <<"whiten_diag">> ELSE <<"whiten_full">>,
          val |-> IF self.q_diag THEN KL_whiten_diag(self) ELSE KL_whiten_full(self)]
    ELSE KL_natural(self, AddJitter(K(self.Z)),
                    CholAttempt("build_prior_KL", AddJitter(K(self.Z))))

build_prior_KL(self) ==
    IF self.whiten
    THEN [ok |-> TRUE, chol |-> <<>>, flags |-> <<"whiten", "q_diag">>,
          formula |-> IF self.q_diag THEN <<"whiten_diag">> ELSE <<"whiten_full">>,
          val |-> IF self.q_diag THEN KL_whiten_diag(self) ELSE KL_whiten_full(self)]
    ELSE KL_natural(self, AddJitter(K(self.Z)),
                    CholAttempt("build_prior_KL", AddJitter(K(self.Z))))

\* ------------------------------------------------------------------------
\* SVGP.build_likelihood, SVGP.build_predict
\* ------------------------------------------------------------------------
PredictorName(self) ==
    IF self.whiten THEN "gaussian_gp_predict_whitened" ELSE "gaussian_gp_predict"

\* lines 91-94 and 105-108: the variant is chosen by self.whiten
Predictor(self, Xs, err) ==
    IF self.whiten
    THEN gaussian_gp_predict_whitened(Xs, self.Z, self.q_mu, self.q_sqrt,
                                      self.num_latent, QSqrtNdims(self), err)
    ELSE gaussian_gp_predict(Xs, self.Z, self.q_mu, self.q_sqrt,
                             self.num_latent, QSqrtNdims(self), err)

\* mutant: the KL is added
ELBO_addKL(self, kl, pred) ==
    XAdd(XReduceSum(variational_expectations(
                MatAdd(pred.mean, MeanFunction(self.mean_function, self.X, self.num_latent)),
                pred.var, IntMat(self.Y))),
         kl.val)

\* lines 97-102, given the KL and the predictor's output
ELBO(self, kl, pred) ==
    XSub(XReduceSum(variational_expectations(
                MatAdd(pred.mean, MeanFunction(self.mean_function, self.X, self.num_latent)),
                pred.var, IntMat(self.Y))),
         kl.val)

likelihood_after_predict(self, kl, pred) ==
    IF ~pred.ok
    THEN [ok |-> FALSE, chol |-> kl.chol \o pred.chol,
          flags |-> kl.flags \o <<"whiten">>,
          calls |-> <<"build_prior_KL", PredictorName(self)>>]
    ELSE [ok |-> TRUE, chol |-> kl.chol \o pred.chol,
          flags |-> kl.flags \o <<"whiten">>,
          calls |-> <<"build_prior_KL", PredictorName(self), "mean_function",
                      "variational_expectations">>,
          val |-> ELBO(self, kl, pred)]

likelihood_after_KL(self, kl, err) ==
    IF ~kl.ok
    THEN [ok |-> FALSE, chol |-> kl.chol, flags |-> kl.flags,
          calls |-> <<"build_prior_KL">>]
    ELSE likelihood_after_predict(self, kl, Predictor(self, self.X, err))

build_likelihood(self, err) == likelihood_after_KL(self, build_prior_KL(self), err)

\* mutant: the mean function is left out
predict_out_noMean(self, Xnew, pred) ==
    IF ~pred.ok
    THEN [ok |-> FALSE, chol |-> pred.chol, flags |-> <<"whiten">>,
          calls |-> <<PredictorName(self)>>]
    ELSE [ok |-> TRUE, chol |-> pred.chol, flags |-> <<"whiten">>,
          calls |-> <<PredictorName(self), "mean_function">>,
          val |-> <<pred.mean, pred.var>>]

\* mutant: mean and variance are returned in the wrong order
predict_out_swapped(self, Xnew, pred) ==
    IF ~pred.ok
    THEN [ok |-> FALSE, chol |-> pred.chol, flags |-> <<"whiten">>,
          calls |-> <<PredictorName(self)>>]
    ELSE [ok |-> TRUE, chol |-> pred.chol, flags |-> <<"whiten">>,
          calls |-> <<PredictorName(self), "mean_function">>,
          val |-> <<pred.var,
                    MatAdd(pred.mean,
                           MeanFunction(self.mean_function, Xnew, self.num_latent))>>]

predict_out(self, Xnew, pred) ==
    IF ~pred.ok
    THEN [ok |-> FALSE, chol |-> pred.chol, flags |-> <<"whiten">>,
          calls |-> <<PredictorName(self)>>]
    ELSE [ok |-> TRUE, chol |-> pred.chol, flags |-> <<"whiten">>,
          calls |-> <<PredictorName(self), "mean_function">>,
          val |-> <<MatAdd(pred.mean,
                           MeanFunction(self.mean_function, Xnew, self.num_latent)),
                    pred.var>>]

build_predict(self, Xnew, err) == predict_out(self, Xnew, Predictor(self, Xnew, err))

\* ------------------------------------------------------------------------
\* State
\* ------------------------------------------------------------------------
VARIABLES
    X, Y, mean_function,      \* GPModel.__init__
    q_diag, whiten,           \* line 34
    Z,                        \* line 35
    num_latent, num_inducing, \* lines 36-37
    q_mu, q_sqrt,             \* lines 39-43
    ctor,                     \* the flags as given to __init__ (history)
    lastOp,                   \* the last operation performed on the model
    arg,                      \* its arguments
    result,                   \* what it returned or raised, and what it did
    steps                     \* optimizer updates so far

model == <<X, Y, mean_function, q_diag, whiten, Z, num_latent, num_inducing, q_mu, q_sqrt>>
vars == <<X, Y, mean_function, q_diag, whiten, Z, num_latent, num_inducing, q_mu, q_sqrt,
          ctor, lastOp, arg, result, steps>>

Self == [X |-> X, Y |-> Y, mean_function |-> mean_function,
         q_diag |-> q_diag, whiten |-> whiten, Z |-> Z,
         num_latent |-> num_latent, num_inducing |-> num_inducing,
         q_mu |-> q_mu, q_sqrt |-> q_sqrt]

NoArg == [Xnew |-> <<>>, err |-> Zero]
NoResult == [ok |-> TRUE, chol |-> <<>>, flags |-> <<>>, calls |-> <<>>]

Init ==
    \E Xs \in XSet, R \in 1..MaxLatent, mf \in MeanFunctions, Zs \in ZSet,
       qd \in BOOLEAN, wh \in BOOLEAN :
      \E nlArg \in {0, R} :
        LET self == SVGP_init(Xs, YOf(Xs, R), mf, Zs, nlArg, qd, wh)
        IN  /\ X = self.X
            /\ Y = self.Y
            /\ mean_function = self.mean_function
            /\ q_diag = self.q_diag
            /\ whiten = self.whiten
            /\ Z = self.Z
            /\ num_latent = self.num_latent
            /\ num_inducing = self.num_inducing
            /\ q_mu = self.q_mu
            /\ q_sqrt = self.q_sqrt
            /\ ctor = [q_diag |-> qd, whiten |-> wh]
            /\ lastOp = "init"
            /\ arg = NoArg
            /\ result = NoResult
            /\ steps = 0

\* ------------------------------------------------------------------------
\* Operations
\* ------------------------------------------------------------------------
\* mutant: q_mu is squared in place
BuildPriorKL_inplace ==
    /\ lastOp' = "build_prior_KL"
    /\ arg' = NoArg
    /\ result' = build_prior_KL(Self)
    /\ q_mu' = Tab(num_inducing, LAMBDA i : Tab(num_latent, LAMBDA d : q_mu[i][d] * q_mu[i][d]))
    /\ UNCHANGED <<X, Y, mean_function, q_diag, whiten, Z, num_latent, num_inducing,
                   q_sqrt, ctor, steps>>

BuildPriorKL ==
    /\ lastOp' = "build_prior_KL"
    /\ arg' = NoArg
    /\ result' = build_prior_KL(Self)
    /\ UNCHANGED <<model, ctor, steps>>

BuildLikelihood ==
    \E err \in RoundErr :
        /\ lastOp' = "build_likelihood"
        /\ arg' = [Xnew |-> <<>>, err |-> err]
        /\ result' = build_likelihood(Self, err)
        /\ UNCHANGED <<model, ctor, steps>>

BuildPredict ==
    \E Xnew \in XnewSet, err \in RoundErr :
        /\ lastOp' = "build_predict"
        /\ arg' = [Xnew |-> Xnew, err |-> err]
        /\ result' = build_predict(Self, Xnew, err)
        /\ UNCHANGED <<model, ctor, steps>>

\* The external optimizer, between forward passes: one update of a free
\* parameter.  Z keeps its shape; diagonal q_sqrt stays positive
\* (transforms.positive); the diagonal of a full q_sqrt slice stays nonzero.
OptimizeQmu ==
    \E i \in 1..num_inducing, d \in 1..num_latent, v \in MuVals :
        /\ v # q_mu[i][d]
        /\ q_mu' = [q_mu EXCEPT ![i][d] = v]
        /\ UNCHANGED <<Z, q_sqrt>>

OptimizeQsqrt ==
    IF q_diag
    THEN \E i \in 1..num_inducing, d \in 1..num_latent, v \in SqrtDiagVals :
            /\ v # q_sqrt[i][d]
            /\ q_sqrt' = [q_sqrt EXCEPT ![i][d] = v]
            /\ UNCHANGED <<Z, q_mu>>
    ELSE \E i \in 1..num_inducing, j \in 1..num_inducing, d \in 1..num_latent :
            \E v \in (IF i = j THEN SqrtDiagVals ELSE SqrtOffVals) :
                /\ v # q_sqrt[i][j][d]
                /\ q_sqrt' = [q_sqrt EXCEPT ![i][j][d] = v]
                /\ UNCHANGED <<Z, q_mu>>

OptimizeZ ==
    \E Zs \in ZSet :
        /\ Len(Zs) = Len(Z)
        /\ Zs # Z
        /\ Z' = Zs
        /\ UNCHANGED <<q_mu, q_sqrt>>

Optimizer ==
    /\ steps < MaxOptSteps
    /\ (OptimizeQmu \/ OptimizeQsqrt \/ OptimizeZ)
    /\ steps' = steps + 1
    /\ lastOp' = "optimizer"
    /\ arg' = NoArg
    /\ result' = NoResult
    /\ UNCHANGED <<X, Y, mean_function, q_diag, whiten, num_latent, num_inducing, ctor>>

Next == BuildPriorKL \/ BuildLikelihood \/ BuildPredict \/ Optimizer

Spec == Init /\ [][Next]_vars

\* ------------------------------------------------------------------------
\* Properties
\* ------------------------------------------------------------------------
ForwardOps == {"build_prior_KL", "build_likelihood", "build_predict"}
Count(seq, x) == Cardinality({k \in 1..Len(seq) : seq[k] = x})

\* C1: whatever the flags, a build_likelihood that returns, returns the sum
\* of the likelihood's variational expectations at (fmean + mean function,
\* fvar, Y) minus the prior KL, (fmean, fvar) being the predictor of the
\* model's whiten variant at the training inputs; the KL is obtained once.
C1_ELBO ==
    (lastOp = "build_likelihood" /\ result.ok) =>
        LET pred == IF whiten
                    THEN gaussian_gp_predict_whitened(X, Z, q_mu, q_sqrt, num_latent,
                                                      QSqrtNdims(Self), arg.err)
                    ELSE gaussian_gp_predict(X, Z, q_mu, q_sqrt, num_latent,
                                             QSqrtNdims(Self), arg.err)
            fmean == MatAdd(pred.mean, MeanFunction(mean_function, X, num_latent))
        IN  /\ result.val = XAdd(XReduceSum(variational_expectations(fmean, pred.var, IntMat(Y))),
                                 XNeg(build_prior_KL(Self).val))
            /\ Count(result.calls, "build_prior_KL") = 1
            /\ Count(result.calls, "mean_function") = 1

C1_Witness ==
    /\ lastOp = "build_likelihood"
    /\ result.ok
    /\ ~whiten
    /\ ~q_diag
    /\ X = <<10, 11>>
    /\ build_prior_KL(Self).val # XZero

\* C2: with whiten and q_diag set, q_mu = 0 and q_sqrt = 1 everywhere,
\* build_prior_KL returns exactly 0, for every M and L.
C2_FreshKLZero ==
    (/\ lastOp = "build_prior_KL"
     /\ whiten
     /\ q_diag
     /\ \A i \in 1..num_inducing, d \in 1..num_latent : q_mu[i][d] = 0 /\ q_sqrt[i][d] = 1)
    => (result.ok /\ result.val = [r |-> <<0, 1>>, p |-> <<1, 1>>, t |-> 0])

C2_Witness ==
    /\ lastOp = "build_prior_KL"
    /\ whiten
    /\ q_diag
    /\ steps = 0
    /\ num_inducing = 2
    /\ num_latent = 2
    /\ result.ok

\* C3: with whiten = false, one build_likelihood factors K(Z) at most once,
\* and the predictor uses the factor of build_prior_KL.
C3_SingleFactorization ==
    (lastOp = "build_likelihood" /\ ~whiten /\ result.ok) =>
        /\ Len(result.chol) <= 1
        /\ \A k \in 1..Len(result.chol) : result.chol[k].by = "build_prior_KL"

\* C4: a forward pass leaves X, Y, Z, q_mu, q_sqrt, the flags and the shapes
\* as they were; nothing ever changes the flags or the data.
C4_Frame ==
    [][/\ (lastOp' \in ForwardOps => model' = model)
       /\ whiten' = whiten /\ q_diag' = q_diag
       /\ X' = X /\ Y' = Y]_vars

C4_Witness ==
    /\ lastOp \in ForwardOps
    /\ steps > 0
    /\ \E i \in 1..num_inducing, d \in 1..num_latent : q_mu[i][d] < 0

\* C5: a build_predict that returns, returns (m + mean function(Xnew), v),
\* (m, v) being the predictor of the model's whiten variant at Xnew, the
\* variant build_likelihood selects; it calls neither build_prior_KL nor
\* the likelihood, and its result does not depend on X or Y.
XAlt == {<<12, 10, 11>>}
C5_Predict ==
    (lastOp = "build_predict" /\ result.ok) =>
        LET pred == IF whiten
                    THEN gaussian_gp_predict_whitened(arg.Xnew, Z, q_mu, q_sqrt, num_latent,
                                                      QSqrtNdims(Self), arg.err)
                    ELSE gaussian_gp_predict(arg.Xnew, Z, q_mu, q_sqrt, num_latent,
                                             QSqrtNdims(Self), arg.err)
        IN  /\ result.val[1] = MatAdd(pred.mean,
                                      MeanFunction(mean_function, arg.Xnew, num_latent))
            /\ result.val[2] = pred.var
            /\ result.calls = <<IF whiten THEN "gaussian_gp_predict_whitened"
                                ELSE "gaussian_gp_predict", "mean_function">>
            /\ result.calls[1] = PredictorName(Self)
            /\ \A X2 \in XAlt :
                 build_predict([Self EXCEPT !.X = X2, !.Y = YOf(X2, num_latent + 1)],
                               arg.Xnew, arg.err) = result

C5_Witness ==
    /\ lastOp = "build_predict"
    /\ result.ok
    /\ arg.Xnew = <<12, 11>>
    /\ ~whiten

C7_CholeskyFatal ==
    [][(lastOp' = "build_likelihood" /\ ~whiten /\ ~CholOk(AddJitter(K(Z)))) =>
        /\ ~result'.ok
        /\ "val" \notin DOMAIN result'
        /\ result'.chol = <<[by |-> "build_prior_KL", jitter |-> <<1, 1000000>>, ok |-> FALSE]>>
        /\ result'.calls = <<"build_prior_KL">>
        /\ Z' = Z /\ q_mu' = q_mu /\ q_sqrt' = q_sqrt]_vars

C7_Witness ==
    /\ lastOp = "build_likelihood"
    /\ ~whiten
    /\ Z = <<5, 6>>
    /\ ~result.ok

\* C8: the diagonal branch with q_sqrt = s and the full branch with slices
\* diag(s[:, d]) return the same KL, for either whiten setting.
DiagStack(s) ==
    Tab(Len(s), LAMBDA i : Tab(Len(s), LAMBDA j : Tab(Len(s[1]), LAMBDA d :
        IF i = j THEN s[i][d] ELSE 0)))
C8_DiagFullAgree ==
    (lastOp = "build_prior_KL" /\ q_diag) =>
        LET full == build_prior_KL([Self EXCEPT !.q_diag = FALSE, !.q_sqrt = DiagStack(q_sqrt)])
        IN  /\ full.ok = result.ok
            /\ result.ok => full.val = result.val

C8_Witness ==
    /\ lastOp = "build_prior_KL"
    /\ q_diag
    /\ ~whiten
    /\ result.ok
    /\ num_inducing = 2
    /\ q_sqrt[1][1] # q_sqrt[2][1]

FormulaFor(c) ==
    IF c.whiten THEN (IF c.q_diag THEN "whiten_diag" ELSE "whiten_full")
    ELSE (IF c.q_diag THEN "diag" ELSE "full")
====
